---- MODULE Spec2Model ----
(***************************************************************************)
(* A model of sprite2/kernel/init/init_main.c: the boot sequencer main()   *)
(* and the Init() handoff that reconstructs the boot command line and      *)
(* execs the first user program.                                           *)
(*                                                                         *)
(*   Spec         main(): one step per statement of lines 40-185.          *)
(*   HandoffSpec  Init(): lines 199-235.                                   *)
(*   GateSpec     the allocator-mode gate behind Vm_BootInit / Vm_Init /   *)
(*                Vm_BootAlloc, driven by arbitrary callers.               *)
(***************************************************************************)
EXTENDS Integers, Sequences, FiniteSets, TLC

VARIABLES
    \* ---- main() ----
    pc,                 \* index of the next statement of MainProgram
    trace,              \* the statements executed so far, in order
    failed,             \* positions of trace whose callee reported non-success
    allocMode,          \* "None" | "Bootstrap" | "General"
    intrEnabled,        \* TRUE once ENABLE_INTR() has run
    main_PanicOK,       \* the counter incremented at line 84
    procs,              \* kernel processes that exist, in creation order
    callFuncs,          \* functions handed to Proc_CallFunc, in order
    i,                  \* loop counter of the RPC server loop
    main_NumRpcServers, \* configuration
    cleanerProcs,       \* FSCACHE_MAX_CLEANER_PROCS
    pageOutProcs,       \* VM_MAX_PAGE_OUT_PROCS
    mainExit,           \* status given to Proc_Exit by main(), -1 before
    \* ---- allocator-mode gate ----
    gateOp,             \* the last gate operation called
    gateResult,         \* outcome of the last gate operation
    halted,             \* TRUE once the kernel has panicked
    bootAllocated,      \* bytes served by Vm_BootAlloc
    genAllocated,       \* bytes served by the general allocator
    \* ---- Init() ----
    ipc,                \* position inside Init()
    frags,              \* the fragments the boot monitor supplied
    argBuffer,          \* char argBuffer[100], the bytes Mach_GetBootArgs wrote
    initArgs,           \* char *initArgs[10] (index InitArgsSlots: the word after it)
    bootCommand,        \* char bootCommand[103]
    argc,
    argLength,
    main_AltInit,       \* 0 or the alternate init path
    status,             \* last ReturnStatus
    execs,              \* the Proc_KernExec attempts: path and argument vector
    log,                \* lines printed by Init()
    initExit,           \* status given to Proc_Exit by Init(), -1 before
    overrun             \* TRUE once a store went past initArgs[9]

mainVars == <<pc, trace, failed, allocMode, intrEnabled, main_PanicOK, procs,
              callFuncs, i, main_NumRpcServers, cleanerProcs, pageOutProcs,
              mainExit>>
gateVars == <<gateOp, gateResult, halted, bootAllocated, genAllocated>>
initVars == <<ipc, frags, argBuffer, initArgs, bootCommand, argc, argLength,
              main_AltInit, status, execs, log, initExit, overrun>>
vars == <<mainVars, gateVars, initVars>>

(***************************************************************************)
(* Bounds of the model.                                                    *)
(***************************************************************************)
MaxFailures == 1      \* simulated non-success outcomes per boot run
MaxRpcServers == 2    \* main_NumRpcServers ranges over 0..MaxRpcServers
MaxCleaners == 2      \* FSCACHE_MAX_CLEANER_PROCS ranges over 1..MaxCleaners
MaxPageOut == 2       \* VM_MAX_PAGE_OUT_PROCS ranges over 1..MaxPageOut

SUCCESS == "SUCCESS"
FAILURE == "FAILURE"

(***************************************************************************)
(* main(), lines 36-186, as the list of its statements in source order.    *)
(***************************************************************************)
St(kind, fn, arg) == [kind |-> kind, fn |-> fn, arg |-> arg]
Call(fn) == St("call", fn, "")

MainProgram ==
    << Call("Main_InitVars"),                        \* line 40
       Call("Mach_Init"),                            \* line 44
       Call("Sync_Init"),                            \* line 45
       Call("Dbg_Init"),                             \* line 48
       St("print", "Mach_MonPrintf", "banner"),      \* line 51
       Call("Sys_Init"),                             \* line 54
       St("bootinit", "Vm_BootInit", ""),            \* line 60
       Call("Dev_Init"),                             \* line 63
       Call("Dump_Init"),                            \* line 66
       Call("Proc_Init"),                            \* line 69
       Call("Sync_LockStatInit"),                    \* line 72
       Call("Timer_Init"),                           \* line 75
       Call("Sig_Init"),                             \* line 78
       Call("Sched_Init"),                           \* line 81
       St("panicok", "main_PanicOK", ""),            \* line 84
       St("print", "printf", "version"),             \* line 85
       Call("Fs_Bin"),                               \* line 88
       Call("Net_Bin"),                              \* line 89
       St("vminit", "Vm_Init", ""),                  \* line 94
       Call("Proc_InitMainProc"),                    \* line 97
       Call("Net_Init"),                             \* line 102
       Call("Net_RouteInit"),                        \* line 103
       Call("Proc_ServerInit"),                      \* line 106
       Call("Recov_Init"),                           \* line 109
       Call("Rpc_Init"),                             \* line 112
       Call("Dev_Config"),                           \* line 115
       Call("Prof_Init"),                            \* line 118
       Call("Mach_MonStartNmi"),                     \* line 121
       St("intr", "ENABLE_INTR", ""),                \* line 122
       Call("Fsrecov_InitState"),                    \* line 125
       Call("Fsrecov_DirOpInit"),                    \* line 128
       Call("Sched_TimeTicks"),                      \* line 131
       Call("Prof_Start"),                           \* line 134
       Call("Rpc_Start"),                            \* line 137
       Call("Fs_Init"),                              \* line 140
       Call("Fs_ProcInit"),                          \* line 143
       St("callfunc", "Proc_CallFunc", "Vm_Clock"),  \* line 146
       St("callfunc", "Proc_CallFunc", "Vm_OpenSwapDirectory"), \* line 147
       St("callfunc", "Proc_CallFunc", "Fsutil_SyncProc"),      \* line 150
       St("rpcloop", "Rpc_CreateServer", ""),        \* lines 154-157
       St("newproc", "Proc_NewProc", "Rpc_Daemon"),  \* line 159
       St("srvproc", "Proc_ServerProcCreate", ""),   \* line 162
       St("newproc", "Proc_NewProc", "Recov_Proc"),  \* line 171
       St("miginit", "Proc_MigInit", ""),            \* line 174
       Call("Main_HookRoutine"),                     \* line 177
       St("print", "printf", "memory"),              \* line 179
       St("newproc", "Proc_NewProc", "Init"),        \* line 182
       St("wait", "Sync_WaitTime", ""),              \* line 183
       St("print", "Mach_MonPrintf", "leaving"),     \* line 184
       St("exit", "Proc_Exit", "") >>                \* line 185

(***************************************************************************)
(* Control flow of main(): statements run in source order, and the value   *)
(* each callee returns is discarded (plain call statements and (void)      *)
(* casts), so the next statement is always the one that follows.           *)
(***************************************************************************)
VmInitIdx == CHOOSE p \in 1..Len(MainProgram) : MainProgram[p].fn = "Vm_Init"
NetInitIdx == CHOOSE p \in 1..Len(MainProgram) : MainProgram[p].fn = "Net_Init"
DevConfigIdx == CHOOSE p \in 1..Len(MainProgram) : MainProgram[p].fn = "Dev_Config"
EnableIntrIdx == CHOOSE p \in 1..Len(MainProgram) : MainProgram[p].fn = "ENABLE_INTR"
RpcLoopIdx == CHOOSE p \in 1..Len(MainProgram) : MainProgram[p].fn = "Rpc_CreateServer"
BootInitIdx == CHOOSE p \in 1..Len(MainProgram) : MainProgram[p].fn = "Vm_BootInit"

\* A reordering slip: Vm_Init() and Net_Init() trade places.
Fetch_VmInitAfterNet(p) ==
    IF p = VmInitIdx THEN MainProgram[NetInitIdx]
    ELSE IF p = NetInitIdx THEN MainProgram[VmInitIdx]
    ELSE MainProgram[p]

\* A slip: interrupts are enabled before the devices are configured.
Fetch_IntrBeforeDevConfig(p) ==
    IF p = DevConfigIdx THEN MainProgram[EnableIntrIdx]
    ELSE IF p = EnableIntrIdx THEN MainProgram[DevConfigIdx]
    ELSE MainProgram[p]

\* A slip: the RPC daemon is created before the initial servers.
Fetch_DaemonFirst(p) ==
    IF p = RpcLoopIdx THEN MainProgram[RpcLoopIdx + 1]
    ELSE IF p = RpcLoopIdx + 1 THEN MainProgram[RpcLoopIdx]
    ELSE MainProgram[p]

\* A slip: the recovery monitor is handed to the deferred-work queue.
Fetch_RecovCallFunc(p) ==
    IF MainProgram[p].arg = "Recov_Proc"
    THEN St("callfunc", "Proc_CallFunc", "Recov_Proc")
    ELSE MainProgram[p]

\* A slip: the partial VM initialization is run again after Vm_Init().
Fetch_BootInitAgain(p) ==
    IF p = VmInitIdx + 1 THEN MainProgram[BootInitIdx] ELSE MainProgram[p]

Fetch(p) == MainProgram[p]

Running == pc <= Len(MainProgram) /\ ~halted
At(kind) == Running /\ Fetch(pc).kind = kind

\* What a callee may report: Success or Failure (a bounded number of failures).
Outcomes == IF Cardinality(failed) < MaxFailures THEN {SUCCESS, FAILURE}
            ELSE {SUCCESS}

\* A slip: a reported failure ends the sequence on the spot.
NextPc_AbortOnFailure(p, st) ==
    IF st = FAILURE THEN Len(MainProgram) + 1 ELSE p + 1

\* A slip: a statement whose callee failed is run again.
NextPc_RetryOnFailure(p, st) == IF st = FAILURE THEN p ELSE p + 1

\* The statement that runs after the one at p, whose callee reported st: the
\* outcome is never looked at, so it is the next one in the source.
NextPc(p, st) == p + 1

\* The statement at pc has been executed and its callee reported st.
Executed(st) ==
    /\ trace' = Append(trace, [fn |-> Fetch(pc).fn, arg |-> Fetch(pc).arg])
    /\ failed' = IF st = FAILURE THEN failed \cup {Len(trace) + 1} ELSE failed

(***************************************************************************)
(* The allocator-mode gate behind Vm_BootInit(), Vm_BootAlloc() and        *)
(* Vm_Init(): each operator gives the mode and the result of one call.     *)
(***************************************************************************)
GateOut(mode, result) == [mode |-> mode, result |-> result]

\* Vm_BootInit(): from here on memory can be allocated with Vm_BootAlloc().
Vm_BootInit(mode) == GateOut("Bootstrap", "OK")

\* Vm_Init(): the one transition to the normal allocator.
Vm_Init(mode) ==
    IF mode = "General" THEN GateOut(mode, "DoubleTransition")
    ELSE GateOut("General", "OK")

\* A gate that keeps serving bootstrap allocations after the transition.
Vm_BootAlloc_Lenient(mode) == GateOut(mode, "OK")

\* Vm_BootAlloc(): served only in bootstrap mode, a kernel panic otherwise.
Vm_BootAlloc(mode) ==
    IF mode = "Bootstrap" THEN GateOut(mode, "OK")
    ELSE GateOut(mode, "FatalAllocatorMisuse")

\* The normal allocator: served only after the transition.
Vm_GeneralAlloc(mode) ==
    IF mode = "General" THEN GateOut(mode, "OK")
    ELSE GateOut(mode, "FatalAllocatorMisuse")

(***************************************************************************)
(* The steps of main().                                                    *)
(***************************************************************************)
\* A collaborator's Init / Start / Config entry point; its outcome is dropped.
CallCollaborator ==
    /\ At("call")
    /\ \E st \in Outcomes :
         /\ Executed(st)
         /\ pc' = NextPc(pc, st)
    /\ UNCHANGED <<allocMode, intrEnabled, main_PanicOK, procs, callFuncs, i,
                   main_NumRpcServers, cleanerProcs, pageOutProcs, mainExit>>
    /\ UNCHANGED <<gateVars, initVars>>

\* Line 60.
MainVmBootInit ==
    /\ At("bootinit")
    /\ Executed(SUCCESS)
    /\ allocMode' = Vm_BootInit(allocMode).mode
    /\ gateOp' = "Vm_BootInit"
    /\ gateResult' = Vm_BootInit(allocMode).result
    /\ pc' = pc + 1
    /\ UNCHANGED <<intrEnabled, main_PanicOK, procs, callFuncs, i,
                   main_NumRpcServers, cleanerProcs, pageOutProcs, mainExit>>
    /\ UNCHANGED <<halted, bootAllocated, genAllocated, initVars>>

\* Line 94.
MainVmInit ==
    /\ At("vminit")
    /\ Executed(SUCCESS)
    /\ allocMode' = Vm_Init(allocMode).mode
    /\ gateOp' = "Vm_Init"
    /\ gateResult' = Vm_Init(allocMode).result
    /\ pc' = pc + 1
    /\ UNCHANGED <<intrEnabled, main_PanicOK, procs, callFuncs, i,
                   main_NumRpcServers, cleanerProcs, pageOutProcs, mainExit>>
    /\ UNCHANGED <<halted, bootAllocated, genAllocated, initVars>>

\* Lines 51, 85, 179, 184.
MainPrint ==
    /\ At("print")
    /\ Executed(SUCCESS)
    /\ pc' = pc + 1
    /\ UNCHANGED <<allocMode, intrEnabled, main_PanicOK, procs, callFuncs, i,
                   main_NumRpcServers, cleanerProcs, pageOutProcs, mainExit>>
    /\ UNCHANGED <<gateVars, initVars>>

\* Line 84.
MainPanicOK ==
    /\ At("panicok")
    /\ Executed(SUCCESS)
    /\ main_PanicOK' = main_PanicOK + 1
    /\ pc' = pc + 1
    /\ UNCHANGED <<allocMode, intrEnabled, procs, callFuncs, i,
                   main_NumRpcServers, cleanerProcs, pageOutProcs, mainExit>>
    /\ UNCHANGED <<gateVars, initVars>>

\* Line 122.
EnableIntr ==
    /\ At("intr")
    /\ Executed(SUCCESS)
    /\ intrEnabled' = TRUE
    /\ pc' = pc + 1
    /\ UNCHANGED <<allocMode, main_PanicOK, procs, callFuncs, i,
                   main_NumRpcServers, cleanerProcs, pageOutProcs, mainExit>>
    /\ UNCHANGED <<gateVars, initVars>>

\* Lines 146, 147, 150.
ProcCallFunc ==
    /\ At("callfunc")
    /\ Executed(SUCCESS)
    /\ callFuncs' = Append(callFuncs, Fetch(pc).arg)
    /\ pc' = pc + 1
    /\ UNCHANGED <<allocMode, intrEnabled, main_PanicOK, procs, i,
                   main_NumRpcServers, cleanerProcs, pageOutProcs, mainExit>>
    /\ UNCHANGED <<gateVars, initVars>>

\* Lines 154-156: one iteration of the loop, (void) Rpc_CreateServer(&pid).
RpcCreateServer ==
    /\ At("rpcloop")
    /\ main_NumRpcServers > 0
    /\ i < main_NumRpcServers
    /\ \E st \in Outcomes :
         /\ Executed(st)
         /\ procs' = IF st = SUCCESS THEN Append(procs, "Rpc_Server") ELSE procs
    /\ i' = i + 1
    /\ UNCHANGED <<pc, allocMode, intrEnabled, main_PanicOK, callFuncs,
                   main_NumRpcServers, cleanerProcs, pageOutProcs, mainExit>>
    /\ UNCHANGED <<gateVars, initVars>>

\* Lines 154-157: the loop is skipped or has run out.
RpcLoopDone ==
    /\ At("rpcloop")
    /\ ~(main_NumRpcServers > 0 /\ i < main_NumRpcServers)
    /\ pc' = pc + 1
    /\ UNCHANGED <<trace, failed, allocMode, intrEnabled, main_PanicOK, procs,
                   callFuncs, i, main_NumRpcServers, cleanerProcs,
                   pageOutProcs, mainExit>>
    /\ UNCHANGED <<gateVars, initVars>>

\* Lines 159, 171, 182: (void) Proc_NewProc(entry, PROC_KERNEL, ...).
ProcNewProc ==
    /\ At("newproc")
    /\ \E st \in Outcomes :
         /\ Executed(st)
         /\ procs' = IF st = SUCCESS THEN Append(procs, Fetch(pc).arg) ELSE procs
         /\ pc' = NextPc(pc, st)
    /\ UNCHANGED <<allocMode, intrEnabled, main_PanicOK, callFuncs, i,
                   main_NumRpcServers, cleanerProcs, pageOutProcs, mainExit>>
    /\ UNCHANGED <<gateVars, initVars>>

\* n copies of a process name.
Batch(name, n) == [k \in 1..n |-> name]

\* Line 162: one batch of FSCACHE_MAX_CLEANER_PROCS + VM_MAX_PAGE_OUT_PROCS;
\* a failed batch stops short of the requested number.
ProcServerProcCreate ==
    /\ At("srvproc")
    /\ LET n == cleanerProcs + pageOutProcs IN
       \E st \in Outcomes :
         /\ Executed(st)
         /\ \E m \in 0..n :
              /\ (st = SUCCESS) <=> (m = n)
              /\ procs' = procs \o Batch("Proc_ServerProc", m)
         /\ pc' = NextPc(pc, st)
    /\ UNCHANGED <<allocMode, intrEnabled, main_PanicOK, callFuncs, i,
                   main_NumRpcServers, cleanerProcs, pageOutProcs, mainExit>>
    /\ UNCHANGED <<gateVars, initVars>>

\* Proc_MigInit(): starts the migration-recovery coordinator process.
Proc_MigInit(ps) == Append(ps, "Proc_MigCoordinator")

\* Line 174.
ProcMigInit ==
    /\ At("miginit")
    /\ Executed(SUCCESS)
    /\ procs' = Proc_MigInit(procs)
    /\ pc' = pc + 1
    /\ UNCHANGED <<allocMode, intrEnabled, main_PanicOK, callFuncs, i,
                   main_NumRpcServers, cleanerProcs, pageOutProcs, mainExit>>
    /\ UNCHANGED <<gateVars, initVars>>

\* Line 183: (void) Sync_WaitTime(time_OneYear).
SyncWaitTime ==
    /\ At("wait")
    /\ Executed(SUCCESS)
    /\ pc' = pc + 1
    /\ UNCHANGED <<allocMode, intrEnabled, main_PanicOK, procs, callFuncs, i,
                   main_NumRpcServers, cleanerProcs, pageOutProcs, mainExit>>
    /\ UNCHANGED <<gateVars, initVars>>

\* Line 185: Proc_Exit(0).
MainExit ==
    /\ At("exit")
    /\ Executed(SUCCESS)
    /\ mainExit' = 0
    /\ pc' = pc + 1
    /\ UNCHANGED <<allocMode, intrEnabled, main_PanicOK, procs, callFuncs, i,
                   main_NumRpcServers, cleanerProcs, pageOutProcs>>
    /\ UNCHANGED <<gateVars, initVars>>

(***************************************************************************)
(* Init(), lines 188-236.                                                  *)
(***************************************************************************)
MaxBootArgs == 8        \* Mach_GetBootArgs(8, ...)
ArgBufferSize == 100    \* char argBuffer[100]
BootCommandSize == 103  \* char bootCommand[103]
InitArgsSlots == 10     \* char *initArgs[10]
MaxFragLen == 2         \* bound: short fragments hold 1..MaxFragLen characters

NUL == 0
SPACE == 32

\* Pointer values held in initArgs.
Ptr(kind, off) == [kind |-> kind, off |-> off]
NIL == Ptr("nil", 0)
Uninit == Ptr("uninit", 0)

\* The characters of fragment j: 'a's in odd fragments, 'b's in even ones.
Frag(j, len) == [x \in 1..len |-> 97 + ((j + 1) % 2)]

\* Fragment lengths the monitor may supply: short ones, and one that fills
\* the whole buffer.
FragLens == (1..MaxFragLen) \cup {ArgBufferSize - 1}

RECURSIVE Pack(_)
\* The fragments back to back, each followed by its NUL.
Pack(fs) == IF fs = <<>> THEN <<>>
            ELSE Pack(SubSeq(fs, 1, Len(fs) - 1)) \o fs[Len(fs)] \o <<NUL>>

\* Offset of fragment j (1-based) from the base of the buffer.
FragOffset(fs, j) == Len(Pack(SubSeq(fs, 1, j - 1)))

Layouts ==
    { fs \in UNION { [1..k -> FragLens] : k \in 0..MaxBootArgs } :
        Len(Pack([j \in 1..Len(fs) |-> Frag(j, fs[j])])) <= ArgBufferSize }

\* Mach_GetBootArgs(8, 100, &initArgs[2], argBuffer): copies the monitor's
\* fragments into argBuffer, stores a pointer to each from argv[0] on, and
\* returns their number.
Mach_GetBootArgs(fs, args) ==
    [argc |-> Len(fs),
     buf  |-> Pack(fs),
     args |-> [k \in DOMAIN args |->
                 IF k >= 2 /\ k <= Len(fs) + 1
                 THEN Ptr("frag", FragOffset(fs, k - 1))
                 ELSE args[k]]]

\* The byte at C index idx of a buffer; -1 where nothing was ever stored.
ByteAt(buf, idx) == IF idx >= 0 /\ idx < Len(buf) THEN buf[idx + 1] ELSE -1

\* strlen of the C string starting at offset off: the distance to the first
\* NUL (or to the end of what was ever stored).
strlen(buf, off) ==
    LET ends == { n \in 0..Len(buf) : ByteAt(buf, off + n) \in {NUL, -1} }
    IN CHOOSE n \in ends : \A m \in ends : n <= m

\* The C string starting at offset off, as a sequence of bytes.
CString(buf, off) == [x \in 1..strlen(buf, off) |-> ByteAt(buf, off + x - 1)]

\* A slip: the length also counts the bytes bootCommand has beyond argBuffer.
ArgLength_CommandSize(n, args, buf) ==
    IF n > 0
    THEN args[n + 1].off + strlen(buf, args[n + 1].off) + 1
         + (BootCommandSize - ArgBufferSize)
    ELSE 0

\* Lines 201-204.
ArgLength(n, args, buf) ==
    IF n > 0 THEN args[n + 1].off + strlen(buf, args[n + 1].off) + 1 - 0
    ELSE 0

\* Lines 208-214: for i in 0..n-1, *ptr++ is argBuffer[i], or a space where
\* argBuffer[i] is NUL.
CopyLoop(buf, cmd, n) ==
    [x \in 1..Len(cmd) |->
        IF x <= n
        THEN IF ByteAt(buf, x - 1) = NUL THEN SPACE ELSE ByteAt(buf, x - 1)
        ELSE cmd[x]]

\* A store to initArgs[idx]; index InitArgsSlots is the word after the array.
Store(args, idx, v) ==
    IF idx \in DOMAIN args THEN [args EXCEPT ![idx] = v] ELSE args

\* A slip: the flag is passed even when there is no command line.
BuildArgs_AlwaysFlag(args, cmd, buf, n, len) ==
    IF len > 0
    THEN LET c == [CopyLoop(buf, cmd, len) EXCEPT ![len + 1] = NUL]
             a1 == Store(args, 1, Ptr("flag", 0))
             a2 == Store(a1, 2, Ptr("cmd", 0))
         IN [args |-> Store(a2, n + 2, NIL), cmd |-> c]
    ELSE [args |-> Store(Store(args, 1, Ptr("flag", 0)), 2, NIL), cmd |-> cmd]

\* Lines 206-219.
BuildArgs(args, cmd, buf, n, len) ==
    IF len > 0
    THEN LET c == [CopyLoop(buf, cmd, len) EXCEPT ![len + 1] = NUL]
             a1 == Store(args, 1, Ptr("flag", 0))
             a2 == Store(a1, 2, Ptr("cmd", 0))
         IN [args |-> Store(a2, n + 2, NIL), cmd |-> c]
    ELSE [args |-> Store(args, 1, NIL), cmd |-> cmd]

\* What a pointer of the vector points at.
Deref(p, buf, cmd) ==
    [kind |-> p.kind,
     text |-> IF p.kind = "frag" THEN CString(buf, p.off)
              ELSE IF p.kind = "cmd" THEN CString(cmd, 0)
              ELSE IF p.kind = "flag" THEN <<45, 98>>
              ELSE <<>>]

RECURSIVE ArgVector(_, _, _, _)
\* The argument vector Proc_KernExec sees: the slots up to the first NIL.
\* Walking into a slot that was never stored ends it with that slot.
ArgVector(args, k, buf, cmd) ==
    IF k \notin DOMAIN args THEN << [kind |-> "uninit", text |-> <<>>] >>
    ELSE IF args[k].kind = "nil" THEN <<>>
    ELSE IF args[k].kind = "uninit" THEN << Deref(args[k], buf, cmd) >>
    ELSE << Deref(args[k], buf, cmd) >> \o ArgVector(args, k + 1, buf, cmd)

Attempt(path) ==
    [path |-> path, argv |-> ArgVector(initArgs', 0, argBuffer, bootCommand)]

Line(msg, path) == [msg |-> msg, path |-> path]

\* A slip: the failed exec leaves no line in the log.
ExecFailed_Silent(lg, path) == lg

\* Lines 225 and 234: printf("Init: Could not exec %s status %x.\n", ...).
ExecFailed(lg, path) == Append(lg, Line("Could not exec", path))

\* Lines 199-200.
InitGetBootArgs ==
    /\ ipc = "start"
    /\ bootCommand' = [x \in 1..BootCommandSize |-> NUL]
    /\ LET r == Mach_GetBootArgs(frags, initArgs) IN
         /\ argc' = r.argc
         /\ argBuffer' = r.buf
         /\ initArgs' = r.args
    /\ ipc' = "length"
    /\ UNCHANGED <<frags, argLength, main_AltInit, status, execs, log,
                   initExit, overrun>>
    /\ UNCHANGED <<mainVars, gateVars>>

\* Lines 201-204.
InitArgLength ==
    /\ ipc = "length"
    /\ argLength' = ArgLength(argc, initArgs, argBuffer)
    /\ ipc' = "build"
    /\ UNCHANGED <<frags, argBuffer, initArgs, bootCommand, argc, main_AltInit,
                   status, execs, log, initExit, overrun>>
    /\ UNCHANGED <<mainVars, gateVars>>

\* Lines 206-219.  A store past initArgs[9] is undefined: the word after the
\* array may or may not read back as the terminator.
InitBuildArgs ==
    /\ ipc = "build"
    /\ LET r == BuildArgs(initArgs, bootCommand, argBuffer, argc, argLength) IN
         /\ bootCommand' = r.cmd
         /\ overrun' = (argLength > 0 /\ argc + 2 >= InitArgsSlots)
         /\ IF overrun'
            THEN \E v \in {NIL, Uninit} :
                    initArgs' = [r.args EXCEPT ![InitArgsSlots] = v]
            ELSE initArgs' = r.args
    /\ ipc' = "alt"
    /\ UNCHANGED <<frags, argBuffer, argc, argLength, main_AltInit, status,
                   execs, log, initExit>>
    /\ UNCHANGED <<mainVars, gateVars>>

\* Line 221, condition false.
InitNoAlt ==
    /\ ipc = "alt"
    /\ main_AltInit = 0
    /\ ipc' = "open"
    /\ UNCHANGED <<frags, argBuffer, initArgs, bootCommand, argc, argLength,
                   main_AltInit, status, execs, log, initExit, overrun>>
    /\ UNCHANGED <<mainVars, gateVars>>

\* A slip: a failed alternate exec ends Init().
AfterAltExec_Fatal(st) == IF st = SUCCESS THEN "Launched" ELSE "exit"

\* A slip: a failed alternate exec is tried again.
AfterAltExec_Retry(st) == IF st = SUCCESS THEN "Launched" ELSE "alt"

\* Lines 224-228: where Init() is after Proc_KernExec(main_AltInit): the new
\* program runs, or the call returned and control falls through to Fs_Open.
AfterAltExec(st) == IF st = SUCCESS THEN "Launched" ELSE "open"

\* A slip: the exec is made only when the open check succeeded.
AfterOpen_Gated(st) == IF st = SUCCESS THEN "exec" ELSE "exit"

\* Lines 228-232: the status of Fs_Open is printed, and the exec follows.
AfterOpen(st) == "exec"

\* Lines 221-226.  Proc_KernExec returns only when the exec failed.
InitAltExec ==
    /\ ipc = "alt"
    /\ main_AltInit # 0
    /\ initArgs' = Store(initArgs, 0, Ptr("alt", 0))
    /\ execs' = Append(execs, Attempt("ALT"))
    /\ \E st \in {SUCCESS, FAILURE} :
         /\ status' = st
         /\ log' = IF st = SUCCESS
                   THEN Append(log, Line("Execing", "ALT"))
                   ELSE ExecFailed(Append(log, Line("Execing", "ALT")), "ALT")
         /\ ipc' = AfterAltExec(st)
    /\ UNCHANGED <<frags, argBuffer, bootCommand, argc, argLength,
                   main_AltInit, initExit, overrun>>
    /\ UNCHANGED <<mainVars, gateVars>>

\* Lines 228-230.
InitOpen ==
    /\ ipc = "open"
    /\ \E st \in {SUCCESS, FAILURE} :
         /\ status' = st
         /\ log' = IF st # SUCCESS THEN Append(log, Line("Can't open", "INIT"))
                   ELSE log
         /\ ipc' = AfterOpen(st)
    /\ UNCHANGED <<frags, argBuffer, initArgs, bootCommand, argc, argLength,
                   main_AltInit, execs, initExit, overrun>>
    /\ UNCHANGED <<mainVars, gateVars>>

\* Lines 232-234.
InitExec ==
    /\ ipc = "exec"
    /\ initArgs' = Store(initArgs, 0, Ptr("init", 0))
    /\ execs' = Append(execs, Attempt("INIT"))
    /\ \E st \in {SUCCESS, FAILURE} :
         /\ status' = st
         /\ IF st = SUCCESS
            THEN /\ log' = log
                 /\ ipc' = "Launched"
            ELSE /\ log' = ExecFailed(log, "INIT")
                 /\ ipc' = "exit"
    /\ UNCHANGED <<frags, argBuffer, bootCommand, argc, argLength,
                   main_AltInit, initExit, overrun>>
    /\ UNCHANGED <<mainVars, gateVars>>

\* Line 235: Proc_Exit(1).
ExitStatus == 1

InitExit ==
    /\ ipc = "exit"
    /\ initExit' = ExitStatus
    /\ ipc' = "Halted"
    /\ UNCHANGED <<frags, argBuffer, initArgs, bootCommand, argc, argLength,
                   main_AltInit, status, execs, log, overrun>>
    /\ UNCHANGED <<mainVars, gateVars>>

(***************************************************************************)
(* Callers of the allocator-mode gate, in any order.                       *)
(***************************************************************************)
MaxAlloc == 4    \* bound: bytes handed out per allocator
AllocSizes == 1..2

Gate(op, out) ==
    /\ gateOp' = op
    /\ allocMode' = out.mode
    /\ gateResult' = out.result
    /\ halted' = (out.result = "FatalAllocatorMisuse")

GateBootInit ==
    /\ ~halted
    /\ Gate("Vm_BootInit", Vm_BootInit(allocMode))
    /\ UNCHANGED <<bootAllocated, genAllocated>>
    /\ UNCHANGED <<pc, trace, failed, intrEnabled, main_PanicOK, procs,
                   callFuncs, i, main_NumRpcServers, cleanerProcs,
                   pageOutProcs, mainExit, initVars>>

GateVmInit ==
    /\ ~halted
    /\ Gate("Vm_Init", Vm_Init(allocMode))
    /\ UNCHANGED <<bootAllocated, genAllocated>>
    /\ UNCHANGED <<pc, trace, failed, intrEnabled, main_PanicOK, procs,
                   callFuncs, i, main_NumRpcServers, cleanerProcs,
                   pageOutProcs, mainExit, initVars>>

GateBootAlloc ==
    /\ ~halted
    /\ \E size \in AllocSizes :
         /\ bootAllocated + size <= MaxAlloc
         /\ Gate("Vm_BootAlloc", Vm_BootAlloc(allocMode))
         /\ bootAllocated' = IF Vm_BootAlloc(allocMode).result = "OK"
                             THEN bootAllocated + size ELSE bootAllocated
    /\ UNCHANGED genAllocated
    /\ UNCHANGED <<pc, trace, failed, intrEnabled, main_PanicOK, procs,
                   callFuncs, i, main_NumRpcServers, cleanerProcs,
                   pageOutProcs, mainExit, initVars>>

GateGeneralAlloc ==
    /\ ~halted
    /\ \E size \in AllocSizes :
         /\ genAllocated + size <= MaxAlloc
         /\ Gate("Vm_GeneralAlloc", Vm_GeneralAlloc(allocMode))
         /\ genAllocated' = IF Vm_GeneralAlloc(allocMode).result = "OK"
                            THEN genAllocated + size ELSE genAllocated
    /\ UNCHANGED bootAllocated
    /\ UNCHANGED <<pc, trace, failed, intrEnabled, main_PanicOK, procs,
                   callFuncs, i, main_NumRpcServers, cleanerProcs,
                   pageOutProcs, mainExit, initVars>>

(***************************************************************************)
(* Initial states and specifications.                                      *)
(***************************************************************************)
MainStart ==
    /\ pc = 1
    /\ trace = <<>>
    /\ failed = {}
    /\ allocMode = "None"
    /\ intrEnabled = FALSE
    /\ main_PanicOK = 0
    /\ procs = <<>>
    /\ callFuncs = <<>>
    /\ i = 0
    /\ mainExit = -1

GateStart ==
    /\ gateOp = "None"
    /\ gateResult = "None"
    /\ halted = FALSE
    /\ bootAllocated = 0
    /\ genAllocated = 0

InitStart ==
    /\ frags = <<>>
    /\ argBuffer = <<>>
    /\ initArgs = [k \in 0..InitArgsSlots |-> Uninit]
    /\ bootCommand = <<>>
    /\ argc = 0
    /\ argLength = 0
    /\ main_AltInit = 0
    /\ status = SUCCESS
    /\ execs = <<>>
    /\ log = <<>>
    /\ initExit = -1
    /\ overrun = FALSE

\* main() is entered with the configuration fixed at build time.
Init ==
    /\ MainStart
    /\ main_NumRpcServers \in 0..MaxRpcServers
    /\ cleanerProcs \in 1..MaxCleaners
    /\ pageOutProcs \in 1..MaxPageOut
    /\ GateStart
    /\ InitStart
    /\ ipc = "idle"

Next ==
    \/ CallCollaborator
    \/ MainVmBootInit
    \/ MainVmInit
    \/ MainPrint
    \/ MainPanicOK
    \/ EnableIntr
    \/ ProcCallFunc
    \/ RpcCreateServer
    \/ RpcLoopDone
    \/ ProcNewProc
    \/ ProcServerProcCreate
    \/ ProcMigInit
    \/ SyncWaitTime
    \/ MainExit

Spec == Init /\ [][Next]_vars

\* Init() is entered in its own process with whatever the monitor supplied.
HandoffInit ==
    /\ MainStart
    /\ main_NumRpcServers = 0
    /\ cleanerProcs = 1
    /\ pageOutProcs = 1
    /\ GateStart
    /\ \E lens \in Layouts :
         /\ frags = [j \in 1..Len(lens) |-> Frag(j, lens[j])]
    /\ argBuffer = <<>>
    /\ initArgs = [k \in 0..InitArgsSlots |-> Uninit]
    /\ bootCommand = <<>>
    /\ argc = 0
    /\ argLength = 0
    /\ main_AltInit \in {0, 1}
    /\ status = SUCCESS
    /\ execs = <<>>
    /\ log = <<>>
    /\ initExit = -1
    /\ overrun = FALSE
    /\ ipc = "start"

HandoffNext ==
    \/ InitGetBootArgs
    \/ InitArgLength
    \/ InitBuildArgs
    \/ InitNoAlt
    \/ InitAltExec
    \/ InitOpen
    \/ InitExec
    \/ InitExit

HandoffSpec == HandoffInit /\ [][HandoffNext]_vars

\* Init() is one sequential thread: while a statement of it remains and its
\* collaborators return, the next statement is executed.
HandoffLive == HandoffSpec /\ WF_vars(HandoffNext)

GateInit ==
    /\ MainStart
    /\ main_NumRpcServers = 0
    /\ cleanerProcs = 1
    /\ pageOutProcs = 1
    /\ GateStart
    /\ InitStart
    /\ ipc = "idle"

GateNext ==
    \/ GateBootInit
    \/ GateVmInit
    \/ GateBootAlloc
    \/ GateGeneralAlloc

GateSpec == GateInit /\ [][GateNext]_vars

(***************************************************************************)
(* Properties.                                                             *)
(***************************************************************************)
Fns(from, to) == { MainProgram[p].fn : p \in from..to }
IdxOf(fn) == CHOOSE p \in 1..Len(MainProgram) : MainProgram[p].fn = fn

\* The collaborators of the required phases, Mach_Init() .. Dev_Config().
FatalPhases == Fns(IdxOf("Mach_Init"), IdxOf("Dev_Config"))
             \ {"printf", "Mach_MonPrintf", "main_PanicOK"}
Prints == {"printf", "Mach_MonPrintf"}
Creations == {"Rpc_CreateServer", "Proc_NewProc", "Proc_ServerProcCreate"}

Called(fn) == \E k \in 1..Len(trace) : trace[k].fn = fn
Count(seq, x) == Cardinality({k \in 1..Len(seq) : seq[k] = x})

\* C1: when the collaborator of a required phase (Mach_Init .. Dev_Config)
\* reports a non-success outcome, main() halts the boot: nothing of a later
\* phase is invoked after it.
C1_FatalShortCircuit ==
    \A j \in failed :
        trace[j].fn \in FatalPhases =>
            ~\E k \in (j + 1)..Len(trace) : trace[k].fn \notin Prints

\* Every later entry of fs in the trace is preceded by a completed call of a.
Before(a, fs) ==
    \A k \in 1..Len(trace) :
        trace[k].fn \in fs => \E j \in 1..(k - 1) : trace[j].fn = a

\* C2: in every boot trace Vm_BootInit precedes Dev_Init, Proc_Init precedes
\* every daemon process creation, Sched_Init precedes Sched_TimeTicks, Vm_Init
\* precedes Net_Init and Net_RouteInit, and Rpc_Init precedes Rpc_Start.
C2_PhaseOrdering ==
    /\ Before("Vm_BootInit", {"Dev_Init"})
    /\ Before("Proc_Init", Creations \cup {"Proc_MigInit"})
    /\ Before("Sched_Init", {"Sched_TimeTicks"})
    /\ Before("Vm_Init", {"Net_Init", "Net_RouteInit"})
    /\ Before("Rpc_Init", {"Rpc_Start"})

\* The whole boot sequence has run, every dependent phase included.
C2_Witness ==
    /\ mainExit = 0
    /\ \A fn \in {"Dev_Init", "Proc_NewProc", "Sched_TimeTicks", "Net_Init",
                  "Net_RouteInit", "Rpc_Start"} : Called(fn)

RECURSIVE Join(_)
\* The fragments joined by single spaces.
Join(fs) == IF fs = <<>> THEN <<>>
            ELSE IF Len(fs) = 1 THEN fs[1]
            ELSE Join(SubSeq(fs, 1, Len(fs) - 1)) \o <<SPACE>> \o fs[Len(fs)]

Built == ipc \notin {"idle", "start", "length", "build"}

\* C3: for k >= 1 fragments stored back to back, the command line that
\* Init() reconstructs is the fragments joined by exactly one space, with
\* nothing after the last fragment.
C3_Reconstruction ==
    (Built /\ argc >= 1) => CString(bootCommand, 0) = Join(frags)

PathKind(path) == IF path = "ALT" THEN "alt" ELSE "init"

\* C4: for k >= 1 fragments, the vector given to exec is exactly
\* [path, "-b", command line], the terminator in slot 3, and no fragment
\* pointer is visible before the terminator.
C4_VectorShape ==
    \A e \in 1..Len(execs) :
        argc >= 1 =>
            /\ Len(execs[e].argv) = 3
            /\ execs[e].argv[1].kind = PathKind(execs[e].path)
            /\ execs[e].argv[2] = [kind |-> "flag", text |-> <<45, 98>>]
            /\ execs[e].argv[3].kind = "cmd"

\* C5: with fragment count 0 the reconstructed length is 0, nothing is
\* reconstructed, and every exec attempt gets [path, terminator], without "-b".
C5_ZeroArguments ==
    (ipc # "start" /\ argc = 0) =>
        /\ ipc # "length" => argLength = 0
        /\ bootCommand = [x \in 1..BootCommandSize |-> NUL]
        /\ \A e \in 1..Len(execs) :
              execs[e].argv = << [kind |-> PathKind(execs[e].path), text |-> <<>>] >>

\* No fragments, and both the alternate and the canonical exec were attempted.
C5_Witness ==
    /\ ipc = "Halted"
    /\ argc = 0
    /\ frags = <<>>
    /\ Len(execs) = 2

\* C6: once the daemon-spawning section of main() is complete there are
\* exactly main_NumRpcServers RPC servers, one Rpc_Daemon, one batch of
\* cleaners + page-out workers, one Recov_Proc and one migration coordinator.
C6_DaemonCount ==
    Called("Proc_MigInit") =>
        /\ Count(procs, "Rpc_Server") = main_NumRpcServers
        /\ Count(procs, "Rpc_Daemon") = 1
        /\ Count(procs, "Proc_ServerProc") = cleanerProcs + pageOutProcs
        /\ Count(trace, [fn |-> "Proc_ServerProcCreate", arg |-> ""]) = 1
        /\ Count(procs, "Recov_Proc") = 1
        /\ Count(procs, "Proc_MigCoordinator") = 1

ExecFailures == SelectSeq(log, LAMBDA l : l.msg = "Could not exec")

\* C7: with an alternate init configured, when both execs have failed the
\* log holds both failures in attempt order (alternate, then canonical) and
\* the process leaves with status 1.
C7_InitExhaustion ==
    (main_AltInit # 0 /\ ipc \in {"exit", "Halted"}) =>
        /\ ExecFailures = << Line("Could not exec", "ALT"),
                             Line("Could not exec", "INIT") >>
        /\ ipc = "exit" => initExit = -1
        /\ ipc = "Halted" => initExit = 1

\* Both execs failed and Init() has left.
C7_Witness ==
    /\ main_AltInit # 0
    /\ ipc = "Halted"
    /\ Len(execs) = 2
    /\ initExit = 1

\* C8: a failed process creation during daemon spawning is fatal: no further
\* daemon is spawned and Init is not launched after it.
C8_SpawnerFatal ==
    \A j \in failed :
        trace[j].fn \in Creations =>
            ~\E k \in (j + 1)..Len(trace) : trace[k].fn \in Creations

\* The allocator mode the calls made so far must have left behind, and where
\* the transition sits in the sequence.
C9_ModeFollowsCalls ==
    /\ ~Called("Vm_BootInit") => allocMode = "None"
    /\ (Called("Vm_BootInit") /\ ~Called("Vm_Init")) => allocMode = "Bootstrap"
    /\ Called("Vm_Init") =>
          /\ allocMode = "General"
          /\ Count([k \in 1..Len(trace) |-> trace[k].fn], "Vm_Init") = 1
    /\ Before("Sched_Init", {"Vm_Init"})
    /\ Before("Vm_Init", {"Net_Init", "Net_RouteInit"})

C9_OneWay ==
    /\ allocMode = "General" => allocMode' = "General"
    /\ (allocMode # "General" /\ allocMode' = "General") =>
          /\ allocMode = "Bootstrap"
          /\ trace' = Append(trace, [fn |-> "Vm_Init", arg |-> ""])

\* C9: the allocator mode is Bootstrap from Vm_BootInit on, becomes General
\* exactly once, at Vm_Init (after Sched_Init, before Net_Init), and never
\* goes back to Bootstrap.
C9_SingleTransition == [](C9_ModeFollowsCalls) /\ [][C9_OneWay]_vars

\* The boot has run to its end in general mode.
C9_Witness ==
    /\ mainExit = 0
    /\ allocMode = "General"
    /\ Called("Vm_BootInit")
    /\ Called("Net_RouteInit")

C10_FailFast ==
    /\ (gateOp' = "Vm_Init" /\ allocMode = "General") =>
          /\ gateResult' = "DoubleTransition"
          /\ allocMode' = "General"
    /\ (gateOp' = "Vm_BootAlloc" /\ allocMode = "General") =>
          /\ gateResult' = "FatalAllocatorMisuse"
          /\ halted'
          /\ bootAllocated' = bootAllocated

Done == pc > Len(MainProgram)
FailedAt(fn) == \E j \in failed : trace[j].fn = fn

\* The statements executed so far are the first ones of main(), in order.
InProgramOrder ==
    \A k \in 1..Len(trace) :
        \E p \in 1..Len(MainProgram) :
            /\ trace[k].fn = MainProgram[p].fn
            /\ trace[k].arg = MainProgram[p].arg
            /\ k > 1 =>
                 \E q \in 1..p :
                     /\ trace[k - 1].fn = MainProgram[q].fn
                     /\ trace[k - 1].arg = MainProgram[q].arg
                     /\ (q = p => MainProgram[p].kind = "rpcloop")

\* C11: a device missing during Dev_Config() does not abort the phase or the
\* boot: Prof_Init, ENABLE_INTR, the Fsrecov initialisation, Fs_Init, the
\* daemon spawning and the launch of Init all still run, and nothing halts.
C11_DeviceTolerance ==
    FailedAt("Dev_Config") =>
        /\ ~halted
        /\ Done =>
             /\ \A fn \in {"Prof_Init", "ENABLE_INTR", "Fsrecov_InitState",
                           "Fsrecov_DirOpInit", "Fs_Init", "Proc_ServerProcCreate",
                           "Proc_MigInit", "Sync_WaitTime"} : Called(fn)
             /\ \A d \in {"Rpc_Daemon", "Recov_Proc", "Init"} :
                   \E k \in 1..Len(trace) :
                       trace[k] = [fn |-> "Proc_NewProc", arg |-> d]
             /\ mainExit = 0

\* Dev_Config() reported a missing device and the boot ran to its end.
C11_Witness ==
    /\ FailedAt("Dev_Config")
    /\ Done
    /\ "Init" \in {procs[k] : k \in 1..Len(procs)}

Entry(fn, arg) == [fn |-> fn, arg |-> arg]
Times(e) == Cardinality({k \in 1..Len(trace) : trace[k] = e})
ProgramEntries == { Entry(MainProgram[p].fn, MainProgram[p].arg) :
                      p \in 1..Len(MainProgram) }

\* One collaborator per phase of the BootPhase enumeration, in its order.
BootPhaseOrder ==
    << Entry("Mach_Init", ""), Entry("Dbg_Init", ""), Entry("Sys_Init", ""),
       Entry("Vm_BootInit", ""), Entry("Dev_Init", ""), Entry("Proc_Init", ""),
       Entry("Timer_Init", ""), Entry("Sig_Init", ""), Entry("Sched_Init", ""),
       Entry("Vm_Init", ""), Entry("Net_Init", ""), Entry("Recov_Init", ""),
       Entry("Rpc_Init", ""), Entry("Dev_Config", ""), Entry("ENABLE_INTR", ""),
       Entry("Fs_Init", ""), Entry("Proc_MigInit", ""),
       Entry("Proc_NewProc", "Init") >>

C12_Sequencing ==
    /\ InProgramOrder
    /\ \A e \in ProgramEntries :
          IF e.fn = "Rpc_CreateServer"
          THEN /\ Times(e) <= main_NumRpcServers
               /\ Done => Times(e) = main_NumRpcServers
          ELSE /\ Times(e) <= 1
               /\ Done => Times(e) = 1
    /\ \A b \in 1..Len(BootPhaseOrder) :
          Times(BootPhaseOrder[b]) > 0 =>
              \A a \in 1..(b - 1) :
                  \E j, k \in 1..Len(trace) :
                      /\ j < k
                      /\ trace[j] = BootPhaseOrder[a]
                      /\ trace[k] = BootPhaseOrder[b]

\* C12: every phase's collaborator is invoked exactly once, the phases
\* complete in the order of the BootPhase enumeration, the cursor of main()
\* never moves backward, and nothing is retried after a failure.
C12_ExactlyOnce == [](C12_Sequencing) /\ [][pc' >= pc]_vars

\* A boot with a failed phase has run to its end, the server loop included.
C12_Witness ==
    /\ Done
    /\ failed # {}
    /\ main_NumRpcServers >= 2
    /\ mainExit = 0

Requests == Creations \cup {"Proc_CallFunc"}

\* C13: interrupts stay masked through every phase from Mach_Init to
\* Dev_Config and are enabled exactly once, and no process creation or
\* deferred-function request is issued before they are enabled.
C13_SingleThreaded ==
    /\ intrEnabled <=> Called("ENABLE_INTR")
    /\ Times(Entry("ENABLE_INTR", "")) <= 1
    /\ Done => Times(Entry("ENABLE_INTR", "")) = 1
    /\ \A k \in 1..Len(trace) :
          trace[k].fn \in FatalPhases =>
              ~\E j \in 1..k : trace[j].fn = "ENABLE_INTR"
    /\ \A k \in 1..Len(trace) :
          trace[k].fn \in Requests =>
              \E j \in 1..(k - 1) : trace[j].fn = "ENABLE_INTR"
    /\ ~intrEnabled => (procs = <<>> /\ callFuncs = <<>>)

\* Interrupts are on and the processes and deferred functions exist.
C13_Witness ==
    /\ intrEnabled
    /\ Called("Dev_Config")
    /\ Len(callFuncs) = 3
    /\ Len(procs) > 0
    /\ Done

DaemonEntry == Entry("Proc_NewProc", "Rpc_Daemon")
ServerCallsBefore(k) ==
    Cardinality({j \in 1..(k - 1) : trace[j].fn = "Rpc_CreateServer"})

ExecsOf(path) == SelectSeq(execs, LAMBDA e : e.path = path)
OpenFailed == \E k \in 1..Len(log) : log[k] = Line("Can't open", "INIT")
LastExec == execs[Len(execs)]

C15_ExecOnce ==
    /\ Len(ExecsOf("INIT")) <= 1
    /\ ipc \in {"exit", "Halted"} => Len(ExecsOf("INIT")) = 1
    /\ (ipc = "Launched" /\ LastExec.path # "ALT") => Len(ExecsOf("INIT")) = 1
    /\ ipc = "exec" =>
          (status # SUCCESS <=> log # <<>> /\ log[Len(log)] = Line("Can't open", "INIT"))

C15_OpenStep ==
    ipc = "open" =>
        /\ ipc' = "exec"
        /\ UNCHANGED <<initArgs, bootCommand, argBuffer, execs, initExit>>

C15_ExecStep ==
    ipc = "exec" =>
        /\ Len(execs') = Len(execs) + 1
        /\ execs'[Len(execs')].path = "INIT"
        /\ Tail(execs'[Len(execs')].argv) =
              ArgVector(initArgs, 1, argBuffer, bootCommand)

\* C15: the canonical exec is attempted exactly once whatever the open check
\* returned; a failed open is logged and neither prevents or delays the exec
\* nor changes its arguments.
C15_AdvisoryOpen ==
    [](C15_ExecOnce) /\ [][C15_OpenStep /\ C15_ExecStep]_vars

\* The open check failed and the canonical exec was made all the same.
C15_Witness ==
    /\ OpenFailed
    /\ Len(ExecsOf("INIT")) = 1
    /\ argc >= 1

C16_AltFirst ==
    /\ Len(ExecsOf("ALT")) =
          IF main_AltInit # 0 /\ ipc \notin {"start", "length", "build", "alt"}
          THEN 1 ELSE 0
    /\ Len(ExecsOf("ALT")) = 1 =>
          /\ execs[1].path = "ALT"
          /\ log[1] = Line("Execing", "ALT")
    /\ (main_AltInit # 0 /\ ipc \in {"open", "exec", "exit", "Halted"}) =>
          /\ SubSeq(log, 1, 2) = << Line("Execing", "ALT"),
                                    Line("Could not exec", "ALT") >>
          /\ initExit = -1 \/ Len(execs) = 2
    /\ (main_AltInit # 0 /\ ipc \in {"exit", "Halted"}) => Len(execs) = 2
    /\ Len(execs) = 2 =>
          /\ execs[2].path = "INIT"
          /\ execs[1].argv[1].kind = "alt"
          /\ execs[2].argv[1].kind = "init"
          /\ Tail(execs[1].argv) = Tail(execs[2].argv)

C16_AltStep ==
    (ipc = "alt" /\ main_AltInit # 0 /\ status' # SUCCESS) =>
        /\ ipc' = "open"
        /\ initExit' = -1

\* C16: the alternate init is execed if and only if one is configured, and
\* before the canonical open check and exec; its failure is not fatal and is
\* followed by the canonical open and exec with the same vector, slot 0 only
\* replaced by the canonical path.
C16_AltFallthrough == [](C16_AltFirst) /\ [][C16_AltStep]_vars

\* The alternate exec failed and the canonical one followed, with arguments.
C16_Witness ==
    /\ Len(execs) = 2
    /\ argc >= 2
    /\ execs[1].path = "ALT"

DeferredWork == <<"Vm_Clock", "Vm_OpenSwapDirectory", "Fsutil_SyncProc">>
RecovEntry == Entry("Proc_NewProc", "Recov_Proc")

\* C17: the recovery monitor and the migration-recovery coordinator are each
\* started as a process of their own and never handed to Proc_CallFunc, which
\* main() uses for Vm_Clock, Vm_OpenSwapDirectory and Fsutil_SyncProc only.
C17_DedicatedRecovery ==
    /\ Len(callFuncs) <= Len(DeferredWork)
    /\ callFuncs = SubSeq(DeferredWork, 1, Len(callFuncs))
    /\ Done => callFuncs = DeferredWork
    /\ \A k \in 1..Len(trace) :
          trace[k].fn = "Proc_CallFunc" =>
              trace[k].arg \in {DeferredWork[x] : x \in 1..Len(DeferredWork)}
    /\ Times(RecovEntry) <= 1
    /\ Done => Times(RecovEntry) = 1
    /\ Count(procs, "Recov_Proc") =
          IF \E k \in 1..Len(trace) : trace[k] = RecovEntry /\ k \notin failed
          THEN 1 ELSE 0
    /\ Count(procs, "Proc_MigCoordinator") =
          IF Called("Proc_MigInit") THEN 1 ELSE 0

\* Both recovery processes exist beside the three deferred functions.
C17_Witness ==
    /\ Done
    /\ Count(procs, "Recov_Proc") = 1
    /\ Count(procs, "Proc_MigCoordinator") = 1
    /\ callFuncs = DeferredWork

Terminal == {"Launched", "Halted"}

\* How far Init() has come: the position in lines 199-235.
Rank(where) ==
    CASE where = "start"    -> 1
      [] where = "length"   -> 2
      [] where = "build"    -> 3
      [] where = "alt"      -> 4
      [] where = "open"     -> 5
      [] where = "exec"     -> 6
      [] where = "exit"     -> 7
      [] where \in Terminal -> 8
      [] OTHER              -> 0

C18_TerminalShape ==
    /\ initExit \in {-1, ExitStatus}
    /\ initExit # 0
    /\ ipc = "Halted" <=> initExit = ExitStatus
    /\ ipc = "Halted" =>
          /\ status # SUCCESS
          /\ execs # <<>>
          /\ LastExec.path = "INIT"
    /\ ipc = "Launched" =>
          /\ status = SUCCESS
          /\ execs # <<>>
          /\ initExit = -1

\* Every step moves Init() strictly forward, and nothing follows a terminal
\* state: no further step, exec attempt or log line.
C18_NoLoop ==
    [][/\ Rank(ipc') > Rank(ipc)
       /\ ipc \notin Terminal]_vars

\* C18: when every collaborator call returns, Init() always ends in exactly
\* one terminal state, Launched (an exec succeeded and nothing follows it) or
\* Halted with status 1; it never halts with status 0 and never loops.
C18_TerminalStates ==
    /\ []C18_TerminalShape
    /\ C18_NoLoop
    /\ <>[](ipc \in Terminal)

\* Init() halted after both the alternate and the canonical exec failed.
C18_Witness ==
    /\ ipc = "Halted"
    /\ initExit = ExitStatus
    /\ Len(execs) = 2

\* The slots of initArgs that Init() and Mach_GetBootArgs have stored to.
SlotsWritten ==
    (IF ipc \in {"idle", "start"} THEN {} ELSE 2..(argc + 1))
    \cup (IF ~Built THEN {}
          ELSE IF argLength > 0 THEN {1, 2, argc + 2} ELSE {1})
    \cup (IF execs = <<>> THEN {} ELSE {0})

\* C19: for every fragment count 0..8, every slot of the argument vector that
\* is written (fragment pointers, the flag, the command line, the terminator
\* at argc + 2, the program path) is one of the 10 reserved slots 0..9.
C19_VectorBounds ==
    /\ argc \in 0..MaxBootArgs
    /\ SlotsWritten \subseteq 0..(InitArgsSlots - 1)
    /\ ~overrun

Measured == ipc \notin {"idle", "start", "length"}

\* C20: for every layout of at most 8 fragments in at most 100 bytes, the
\* computed length is 1..100 when there are fragments, the copy loop reads
\* only bytes of the 100-byte boot-arg buffer (bytes the monitor stored), and
\* every byte written to bootCommand, the final NUL at index argLength
\* included, is inside its 103 bytes.
C20_BufferBounds ==
    /\ Len(frags) <= MaxBootArgs
    /\ Len(Pack(frags)) <= ArgBufferSize
    /\ Measured =>
          /\ Len(argBuffer) <= ArgBufferSize
          /\ Len(bootCommand) = BootCommandSize
          /\ argc > 0 => argLength \in 1..ArgBufferSize
          /\ argc = 0 => argLength = 0
          /\ argLength <= Len(argBuffer)
          /\ argLength <= BootCommandSize - 1
    /\ (Built /\ argLength > 0) =>
          /\ \A x \in 0..(argLength - 1) :
                /\ ByteAt(argBuffer, x) # -1
                /\ ByteAt(bootCommand, x) \notin {NUL, -1}
          /\ ByteAt(bootCommand, argLength) = NUL

\* One fragment fills the boot-arg buffer: the longest copy there can be.
C20_Witness ==
    /\ Built
    /\ argc = 1
    /\ argLength = ArgBufferSize
    /\ ByteAt(bootCommand, ArgBufferSize - 1) = SPACE
    /\ ByteAt(bootCommand, ArgBufferSize) = NUL

====
